---- MODULE Spec2Model ----
(***************************************************************************)
(* Barnes-Hut n-body simulation (src/src/particles.py, src/src/main.py).   *)
(*                                                                         *)
(* Numbers.  Every length of the program is a np.float64.  A length is     *)
(* modelled as an integer count of quanta (QuantaPerMetre to the metre),   *)
(* and every float64 operation of the bounds arithmetic (cube_bounds,      *)
(* np.linspace, lower + child_size) rounds its exact result to the nearest *)
(* number with a Precision-bit significand, ties to even, as IEEE-754      *)
(* does with 53 bits.  The quantum plays the part of the smallest          *)
(* subnormal: halving an odd count of quanta rounds, and halving 1 gives 0.*)
(* Masses, charges and velocities are integers; a sum of masses rounds    *)
(* like any other float sum (it is exact while it fits the significand).   *)
(* Aggregate centres are kept as fractions moment / total.                 *)
(* A velocity is a count of quanta per second.  G, k and mu_0 / 4 pi make  *)
(* every acceleration of the inputs smaller than the format resolves next  *)
(* to a velocity or a position, so a sum position + velocity * dt + ...    *)
(* rounds to the float of position + velocity * dt; the accelerations a    *)
(* tick computes are kept beside it as formal sums.                        *)
(* A field value is kept as the formal sum (a bag) of the source terms     *)
(* the code adds up, so that what was summed, and how often, is visible.   *)
(***************************************************************************)
EXTENDS Integers, Sequences, FiniteSets, Bags, TLC

VARIABLES
    current_id,       \* PointParticle.current_id, the class-wide ID counter
    particles_list,   \* the list of PointParticle objects built by the caller: in
                      \* main.py the module-level name particles_list
    barnes_hut_root,  \* <<>> before construction, <<root>> once BarnesHutNode(...) returned
    raised,           \* "" or the name of the exception the last call raised
    query,            \* <<>> or <<[point, theta, particle_id]>>: arguments of the last field query
    field,            \* <<>> or <<[g, e, b]>>: the three fields the last query returned
    visited,          \* <<>> or <<[g, e, b]>>: the nodes each of the three walks entered
    force,            \* <<>> or <<f>>: get_force_experienced of the three fields
    phase,            \* where Simulation.run / time_step stands ("script": no Simulation)
    index,            \* the loop variable i of time_step's two loops and of run's last loop
    sim_theta,        \* Simulation.theta
    num_time_steps,   \* the argument of Simulation.run
    current_time_step,\* Simulation.current_time_step
    particles_data,   \* Simulation.particles_data, a sequence of rows [t, x, y, z]
    new_data,         \* time_step's local new_data, one entry per particle
    tick_start,       \* history: for each tick begun, the particles as that tick found them
    self_particles_list,     \* Simulation.particles_list
    output_io_wrapper,       \* FileHandler.output_io_wrapper: "None", "open" or "closed"
    output_file,             \* the strings the output file holds
    returned,                \* <<>> or <<b>>: what the last FileHandler method returned
    default_initial_values,  \* the array made once as the default of eulers' initial_values
    caller_values,           \* an array the caller owns and passes as initial_values
    eulers_calls             \* history: the arguments and the result of each call of eulers

\* the state of a Simulation
simvars ==
    <<phase, index, sim_theta, num_time_steps, current_time_step, particles_data, new_data,
      tick_start, self_particles_list>>

\* the state of a FileHandler and of the arrays given to NumericalIntegration.eulers
libvars ==
    <<output_io_wrapper, output_file, returned, default_initial_values, caller_values,
      eulers_calls>>

vars ==
    <<current_id, particles_list, barnes_hut_root, raised, query, field, visited, force,
      simvars, libvars>>

---------------------------------------------------------------------------
(* Bounds of the model. *)

\* significand bits of the modelled float format (53 in float64)
Precision == 4
\* deepest node the interpreter's recursion limit lets __init__ reach
RecursionLimit == 4
\* longest particle list
MaxParticles == 3
\* quanta per metre: resolution of the modelled float format
QuantaPerMetre == 32

---------------------------------------------------------------------------
(* float64 arithmetic on lengths *)

Abs(x) == IF x < 0 THEN -x ELSE x

Sign(x) == IF x < 0 THEN -1 ELSE 1

Pow2(n) == 2 ^ n

\* exponent of the binade of a > 0: least e >= 0 with a < 2^(Precision + e)
RECURSIVE Exponent(_, _)
Exponent(a, e) == IF a < Pow2(Precision + e) THEN e ELSE Exponent(a, e + 1)

\* round f + rem/q to an integer, ties to even
RoundHalfEven(f, rem, q) ==
    IF 2 * rem > q \/ (2 * rem = q /\ f % 2 = 1) THEN f + 1 ELSE f

\* the float nearest to the exact value x (in quanta)
Round(x) ==
    IF x = 0 THEN 0
    ELSE LET a == Abs(x)
             q == Pow2(Exponent(a, 0))
         IN  Sign(x) * RoundHalfEven(a \div q, a % q, q) * q

\* every length of a run lies within 40 m of the origin: Round, tabulated once
FloatRange == 40 * QuantaPerMetre

FloatTable == [x \in -FloatRange..FloatRange |-> Round(x)]

Fl(x) == FloatTable[x]

\* the float x / 2, for a float x
Half(x) == Sign(x) * RoundHalfEven(Abs(x) \div 2, Abs(x) % 2, 2)

IsFloat(x) == Fl(x) = x

---------------------------------------------------------------------------
(* vectors and sums *)

Zero3 == <<0, 0, 0>>

VecSub(a, b) == <<a[1] - b[1], a[2] - b[2], a[3] - b[3]>>

VecAdd(a, b) == <<a[1] + b[1], a[2] + b[2], a[3] + b[3]>>

VecScale(k, a) == <<k * a[1], k * a[2], k * a[3]>>

\* squared Euclidean norm
Norm2(a) == a[1] * a[1] + a[2] * a[2] + a[3] * a[3]

RECURSIVE SumSeq(_)
SumSeq(s) == IF s = <<>> THEN 0 ELSE Head(s) + SumSeq(Tail(s))

\* sum(...) of floats: 0 + s[1] + s[2] + ..., each + rounded
RECURSIVE FloatSum(_)
FloatSum(s) ==
    IF s = <<>> THEN 0 ELSE Fl(FloatSum(SubSeq(s, 1, Len(s) - 1)) + s[Len(s)])

RECURSIVE SumVec(_)
SumVec(s) == IF s = <<>> THEN Zero3 ELSE VecAdd(Head(s), SumVec(Tail(s)))

MinOf(S) == CHOOSE x \in S : \A y \in S : x <= y

MaxOf(S) == CHOOSE x \in S : \A y \in S : x >= y

---------------------------------------------------------------------------
(* PointParticle *)

\* np.zeros(3) where a field, a force or an acceleration is meant: the empty sum
ZeroField == EmptyBag

PointParticle(position, velocity, mass, charge, id) ==
    [position |-> position, velocity |-> velocity, acceleration |-> ZeroField,
     MASS |-> mass, CHARGE |-> charge, ID |-> id]

\* PointParticle.__eq__
PointParticle_eq(self, value) == self.ID = value.ID

\* One summand of a field value.  kind "g": sign * r * G * q / |r|^3; kind "e":
\* sign * r * k * q / |r|^3; kind "b": sign * mu_0 * q * (v x r) / (4 pi |r|^3).
\* r and v are exact fractions num / den; ids are the particles whose (non-zero) mass
\* or charge is in q.
Term(kind, sign, q, r, v, ids) ==
    [kind |-> kind, sign |-> sign, q |-> q, r |-> r, v |-> v, ids |-> ids]

\* the mass or charge a particle lends to a field of this kind
Source(kind, particle) == IF kind = "g" THEN particle.MASS ELSE particle.CHARGE

SourceIds(kind, particles) ==
    {particles[i].ID : i \in {j \in 1..Len(particles) : Source(kind, particles[j]) # 0}}

Exact(vec) == [num |-> vec, den |-> 1]

\* np.cross
Cross(a, b) ==
    <<a[2] * b[3] - a[3] * b[2], a[3] * b[1] - a[1] * b[3], a[1] * b[2] - a[2] * b[1]>>

\* a field of one summand; a summand whose mass or charge is 0, or whose v x r is 0,
\* is the zero vector
Summand(term) ==
    IF term.q = 0 \/ (term.kind = "b" /\ Cross(term.v.num, term.r.num) = Zero3)
    THEN ZeroField
    ELSE SetToBag({term})

PointParticle_get_gravitational_field_exerted(particle, point) ==
    LET r == VecSub(point, particle.position)
    IN  IF Norm2(r) = 0 THEN ZeroField
        ELSE Summand(Term("g", -1, particle.MASS, Exact(r), Exact(Zero3),
                          SourceIds("g", <<particle>>)))

PointParticle_get_electric_field_exerted(particle, point) ==
    LET r == VecSub(point, particle.position)
    IN  IF Norm2(r) = 0 THEN ZeroField
        ELSE Summand(Term("e", -1, particle.CHARGE, Exact(r), Exact(Zero3),
                          SourceIds("e", <<particle>>)))

PointParticle_get_magnetic_field_exerted(particle, point) ==
    LET r == VecSub(point, particle.position)
    IN  IF Norm2(r) = 0 THEN ZeroField
        ELSE Summand(Term("b", 1, particle.CHARGE, Exact(r), Exact(particle.velocity),
                          SourceIds("b", <<particle>>)))

\* One summand of a force: factor * (field term), or factor * (u x field term) for the
\* magnetic force.
ForceTerm(factor, u, term) == [factor |-> factor, u |-> u, field |-> term]

get_gravitational_force_experienced(particle, gravitational_field) ==
    BagOfAll(LAMBDA t : ForceTerm(particle.MASS, Zero3, t), gravitational_field)

get_electrostatic_force_experienced(particle, electric_field) ==
    BagOfAll(LAMBDA t : ForceTerm(particle.CHARGE, Zero3, t), electric_field)

get_magnetic_force_experienced(particle, magnetic_field) ==
    BagOfAll(LAMBDA t : ForceTerm(particle.CHARGE, particle.velocity, t), magnetic_field)

get_force_experienced(particle, gravitational_field, electric_field, magnetic_field) ==
    get_gravitational_force_experienced(particle, gravitational_field)
    (+) get_electrostatic_force_experienced(particle, electric_field)
    (+) get_magnetic_force_experienced(particle, magnetic_field)

PointParticle_get_field_exerted(kind, particle, point) ==
    CASE kind = "g" -> PointParticle_get_gravitational_field_exerted(particle, point)
      [] kind = "e" -> PointParticle_get_electric_field_exerted(particle, point)
      [] kind = "b" -> PointParticle_get_magnetic_field_exerted(particle, point)

---------------------------------------------------------------------------
(* BarnesHutNode: construction *)

\* np.mean of a two-element array
Mean2(b) == Half(Fl(b[1] + b[2]))

cube_bounds(x_bounds, y_bounds, z_bounds) ==
    LET centroid == <<Mean2(x_bounds), Mean2(y_bounds), Mean2(z_bounds)>>
        width == Fl(x_bounds[2] - x_bounds[1])
        length == Fl(y_bounds[2] - y_bounds[1])
        height == Fl(z_bounds[2] - z_bounds[1])
        size == MaxOf({width, length, height})
        half_size == Half(size)
    IN  IF width = length /\ length = height
        THEN [bounds |-> <<x_bounds, y_bounds, z_bounds>>,
              centroid |-> centroid, size |-> size]
        ELSE [bounds |-> [i \in 1..3 |->
                             <<Fl(centroid[i] - half_size), Fl(centroid[i] + half_size)>>],
              centroid |-> centroid, size |-> size]

\* bounds: <<X_BOUNDS, Y_BOUNDS, Z_BOUNDS>>
particle_within_bounds(bounds, particle) ==
    /\ particle.position[1] >= bounds[1][1]
    /\ particle.position[1] <= bounds[1][2]
    /\ particle.position[2] >= bounds[2][1]
    /\ particle.position[2] <= bounds[2][2]
    /\ particle.position[3] >= bounds[3][1]
    /\ particle.position[3] <= bounds[3][2]

\* the bounds __init__ infers on one axis when none is given: (min, max) of the positions
InferredBounds(particles, axis) ==
    LET coords == {particles[i].position[axis] : i \in 1..Len(particles)}
    IN  <<MinOf(coords), MaxOf(coords)>>

\* np.linspace(lower, upper, num=2, endpoint=False)
Linspace2(b) == <<b[1], Fl(Half(Fl(b[2] - b[1])) + b[1])>>

\* a variant of the condition below that leaves a cell of two particles undivided
IsInternal_more_than_two(count, size) == count > 2 /\ size > 0

\* the condition under which __init__ calls create_child_nodes
IsInternal(count, size) == count > 1 /\ size > 0

\* the node a frame deeper than the recursion limit would have built: RecursionError
Overflowed ==
    [X_BOUNDS |-> <<0, 0>>, Y_BOUNDS |-> <<0, 0>>, Z_BOUNDS |-> <<0, 0>>, SIZE |-> 0,
     PARTICLES |-> <<>>, TOTAL_MASS |-> 0,
     CENTER_OF_MASS |-> [num |-> Zero3, den |-> 1],
     TOTAL_CHARGE |-> 0,
     CENTER_OF_CHARGE |-> [num |-> Zero3, den |-> 1],
     CENTER_OF_CHARGE_VELOCITY |-> [num |-> Zero3, den |-> 1],
     CHILD_NODES |-> <<>>, overflow |-> TRUE]

\* BarnesHutNode.__init__ with the three bounds given, at recursion depth `depth`;
\* its call of create_child_nodes is ChildNodes below.
RECURSIVE BarnesHutNode(_, _, _, _, _)
ChildNodes(PARTICLES, bounds, SIZE, depth) ==
    LET child_size == Half(SIZE)
        x_linspace == Linspace2(bounds[1])
        y_linspace == Linspace2(bounds[2])
        z_linspace == Linspace2(bounds[3])
    IN  [k \in 1..8 |->
            LET lower_x == x_linspace[((k - 1) \div 4) + 1]
                lower_y == y_linspace[(((k - 1) \div 2) % 2) + 1]
                lower_z == z_linspace[((k - 1) % 2) + 1]
            IN  BarnesHutNode(PARTICLES,
                              <<lower_x, Fl(lower_x + child_size)>>,
                              <<lower_y, Fl(lower_y + child_size)>>,
                              <<lower_z, Fl(lower_z + child_size)>>,
                              depth + 1)]

BarnesHutNode(particles, x_bounds, y_bounds, z_bounds, depth) ==
    IF depth > RecursionLimit THEN Overflowed
    ELSE
    LET cubed == cube_bounds(x_bounds, y_bounds, z_bounds)
        bounds == cubed.bounds
        PARTICLES == SelectSeq(particles, LAMBDA p : particle_within_bounds(bounds, p))
        TOTAL_MASS == FloatSum([i \in 1..Len(PARTICLES) |-> PARTICLES[i].MASS])
        mass_moment == SumVec([i \in 1..Len(PARTICLES) |->
                                  VecScale(PARTICLES[i].MASS, PARTICLES[i].position)])
        TOTAL_CHARGE == SumSeq([i \in 1..Len(PARTICLES) |-> PARTICLES[i].CHARGE])
        charge_moment == SumVec([i \in 1..Len(PARTICLES) |->
                                    VecScale(PARTICLES[i].CHARGE, PARTICLES[i].position)])
        current_moment == SumVec([i \in 1..Len(PARTICLES) |->
                                     VecScale(PARTICLES[i].CHARGE, PARTICLES[i].velocity)])
        CHILD_NODES == IF IsInternal(Len(PARTICLES), cubed.size)
                       THEN ChildNodes(PARTICLES, bounds, cubed.size, depth)
                       ELSE <<>>
    IN  [X_BOUNDS |-> bounds[1], Y_BOUNDS |-> bounds[2], Z_BOUNDS |-> bounds[3],
         SIZE |-> cubed.size,
         PARTICLES |-> PARTICLES,
         TOTAL_MASS |-> TOTAL_MASS,
         CENTER_OF_MASS |-> IF TOTAL_MASS # 0
                            THEN [num |-> mass_moment, den |-> TOTAL_MASS]
                            ELSE [num |-> cubed.centroid, den |-> 1],
         TOTAL_CHARGE |-> TOTAL_CHARGE,
         CENTER_OF_CHARGE |-> IF TOTAL_CHARGE # 0
                              THEN [num |-> charge_moment, den |-> TOTAL_CHARGE]
                              ELSE [num |-> Zero3, den |-> 1],
         CENTER_OF_CHARGE_VELOCITY |-> IF TOTAL_CHARGE # 0
                                       THEN [num |-> current_moment, den |-> TOTAL_CHARGE]
                                       ELSE [num |-> Zero3, den |-> 1],
         CHILD_NODES |-> CHILD_NODES,
         overflow |-> \E k \in 1..Len(CHILD_NODES) : CHILD_NODES[k].overflow]

\* BarnesHutNode(particles): the three bounds inferred from a non-empty list
RootNode(particles) ==
    BarnesHutNode(particles, InferredBounds(particles, 1), InferredBounds(particles, 2),
                  InferredBounds(particles, 3), 0)

---------------------------------------------------------------------------
(* BarnesHutNode: field queries.  theta is a fraction [num, den], den > 0. *)

RECURSIVE BagSum(_)
BagSum(s) == IF s = <<>> THEN EmptyBag ELSE Head(s) (+) BagSum(Tail(s))

\* the aggregate centre a query of this kind measures the distance from
Centre(kind, node) == IF kind = "g" THEN node.CENTER_OF_MASS ELSE node.CENTER_OF_CHARGE

\* r = point - centre, times the centre's denominator
Displacement(centre, point) == VecSub(VecScale(centre.den, point), centre.num)

\* distance == 0
AtCentre(kind, node, point) == Norm2(Displacement(Centre(kind, node), point)) = 0

\* a variant of the test below with the comparison turned round: SIZE > theta * distance
SizeBelow_reversed(kind, node, point, theta) ==
    LET centre == Centre(kind, node)
        lhs == node.SIZE * theta.den * Abs(centre.den)
    IN  /\ theta.num > 0
        /\ lhs * lhs > theta.num * theta.num * Norm2(Displacement(centre, point))

\* a variant of the test below that also accepts equality: SIZE <= theta * distance
SizeBelow_or_equal(kind, node, point, theta) ==
    LET centre == Centre(kind, node)
        lhs == node.SIZE * theta.den * Abs(centre.den)
    IN  /\ theta.num >= 0
        /\ lhs * lhs <= theta.num * theta.num * Norm2(Displacement(centre, point))

\* self.SIZE < theta * distance, both sides squared when theta > 0
SizeBelow(kind, node, point, theta) ==
    LET centre == Centre(kind, node)
        lhs == node.SIZE * theta.den * Abs(centre.den)
    IN  /\ theta.num > 0
        /\ lhs * lhs < theta.num * theta.num * Norm2(Displacement(centre, point))

\* the single point source a far cell is replaced by
NodeTerm(kind, node, point) ==
    LET centre == Centre(kind, node)
        r == [num |-> Displacement(centre, point), den |-> centre.den]
        ids == SourceIds(kind, node.PARTICLES)
    IN  CASE kind = "g" -> Term("g", -1, node.TOTAL_MASS, r, Exact(Zero3), ids)
          [] kind = "e" -> Term("e", -1, node.TOTAL_CHARGE, r, Exact(Zero3), ids)
          [] kind = "b" -> Term("b", 1, node.TOTAL_CHARGE, r,
                                node.CENTER_OF_CHARGE_VELOCITY, ids)

\* the walk the three get_*_field_exerted methods share
RECURSIVE NodeField(_, _, _, _, _)
NodeField(kind, node, point, theta, particle_id) ==
    IF AtCentre(kind, node, point) THEN ZeroField
    ELSE IF SizeBelow(kind, node, point, theta)
    THEN Summand(NodeTerm(kind, node, point))
    ELSE IF Len(node.CHILD_NODES) > 0
    THEN BagSum([k \in 1..Len(node.CHILD_NODES) |->
                    NodeField(kind, node.CHILD_NODES[k], point, theta, particle_id)])
    ELSE BagSum([i \in 1..Len(node.PARTICLES) |->
                    IF node.PARTICLES[i].ID # particle_id
                    THEN PointParticle_get_field_exerted(kind, node.PARTICLES[i], point)
                    ELSE ZeroField])

BarnesHutNode_get_gravitational_field_exerted(node, point, theta, particle_id) ==
    NodeField("g", node, point, theta, particle_id)

BarnesHutNode_get_electric_field_exerted(node, point, theta, particle_id) ==
    NodeField("e", node, point, theta, particle_id)

BarnesHutNode_get_magnetic_field_exerted(node, point, theta, particle_id) ==
    NodeField("b", node, point, theta, particle_id)

\* the nodes whose method a query enters, as paths of child indices from the root
RECURSIVE NodesVisited(_, _, _, _, _)
NodesVisited(kind, node, path, point, theta) ==
    {path} \cup
    IF AtCentre(kind, node, point) \/ SizeBelow(kind, node, point, theta)
    THEN {}
    ELSE UNION {NodesVisited(kind, node.CHILD_NODES[k], Append(path, k), point, theta) :
                   k \in 1..Len(node.CHILD_NODES)}

---------------------------------------------------------------------------
(* inputs *)

\* the particle positions offered to the program, each coordinate the float nearest
\* to the decimal given: (0, 0, 0), (10, 0, 0), (0, 10, 0) and (3.5, 0, 0)
Positions ==
    {<<0, 0, 0>>,
     <<Fl(10 * QuantaPerMetre), 0, 0>>,
     <<0, Fl(10 * QuantaPerMetre), 0>>,
     <<Fl((7 * QuantaPerMetre) \div 2), 0, 0>>}

\* (mass, charge, velocity) of the particles offered
Kinds ==
    {[mass |-> 1, charge |-> 0, velocity |-> Zero3],
     [mass |-> 2, charge |-> 1, velocity |-> <<1, 0, 0>>]}

\* the values of theta offered: 0, the Simulation default 1/2, 1 and 2
Thetas ==
    {[num |-> 0, den |-> 1], [num |-> 1, den |-> 2], [num |-> 1, den |-> 1],
     [num |-> 2, den |-> 1]}

\* the position of bh_test's test particle, (5, 5, 5)
Probe == <<Fl(5 * QuantaPerMetre), Fl(5 * QuantaPerMetre), Fl(5 * QuantaPerMetre)>>

\* the particle that experiences the queried fields: the particle excluded, or
\* bh_test's test particle (mass 1, charge 1) put at the point
Experiencer(particles, point, particle_id) ==
    IF \E i \in 1..Len(particles) : particles[i].ID = particle_id
    THEN particles[CHOOSE i \in 1..Len(particles) : particles[i].ID = particle_id]
    ELSE PointParticle(point, Zero3, 1, 1, particle_id)

\* (point, particle_id) of a query: any particle's position or the probe with nothing
\* excluded, or a particle's position with that particle excluded
QueryArgs(particles) ==
    {<<particles[i].position, -1>> : i \in 1..Len(particles)}
    \cup {<<Probe, -1>>}
    \cup {<<particles[i].position, particles[i].ID>> : i \in 1..Len(particles)}

---------------------------------------------------------------------------
(* actions *)

\* no FileHandler has opened its output file, and the arrays of eulers are as made
LibInit ==
    /\ output_io_wrapper = "None"
    /\ output_file = <<>>
    /\ returned = <<>>
    /\ default_initial_values = Zero3
    /\ caller_values = Zero3
    /\ eulers_calls = <<>>

Init ==
    /\ current_id = 0
    /\ particles_list = <<>>
    /\ barnes_hut_root = <<>>
    /\ raised = ""
    /\ query = <<>>
    /\ field = <<>>
    /\ visited = <<>>
    /\ force = <<>>
    /\ phase = "script"
    /\ index = 0
    /\ sim_theta = [num |-> 1, den |-> 2]
    /\ num_time_steps = 0
    /\ current_time_step = 0
    /\ particles_data = <<>>
    /\ new_data = <<>>
    /\ tick_start = <<>>
    /\ self_particles_list = <<>>
    /\ LibInit

\* a variant of the constructor call below that leaves the class counter as it was
NewParticle_keeps_counter(position, velocity, mass, charge) ==
    /\ raised = ""
    /\ barnes_hut_root = <<>>
    /\ Len(particles_list) < MaxParticles
    /\ particles_list' =
           Append(particles_list, PointParticle(position, velocity, mass, charge, current_id))
    /\ current_id' = current_id
    /\ UNCHANGED <<barnes_hut_root, raised, query, field, visited, force, simvars,
                 libvars>>

\* PointParticle(position, velocity, mass, charge), appended to the caller's list
NewParticle(position, velocity, mass, charge) ==
    /\ raised = ""
    /\ barnes_hut_root = <<>>
    /\ Len(particles_list) < MaxParticles
    /\ particles_list' =
           Append(particles_list, PointParticle(position, velocity, mass, charge, current_id))
    /\ current_id' = current_id + 1
    /\ UNCHANGED <<barnes_hut_root, raised, query, field, visited, force, simvars,
                 libvars>>

\* BarnesHutNode(particles=particles_list)
Build ==
    /\ raised = ""
    /\ barnes_hut_root = <<>>
    /\ IF particles_list = <<>>
       THEN /\ raised' = "ValueError"
            /\ UNCHANGED barnes_hut_root
       ELSE LET root == RootNode(particles_list)
            IN  IF root.overflow
                THEN /\ raised' = "RecursionError"
                     /\ UNCHANGED barnes_hut_root
                ELSE /\ barnes_hut_root' = <<root>>
                     /\ UNCHANGED raised
    /\ UNCHANGED <<current_id, particles_list, query, field, visited, force, simvars,
                 libvars>>

\* a variant of the queries below that stores the force found in the particle excluded
Query_stores_force(point, theta, particle_id) ==
    /\ barnes_hut_root # <<>>
    /\ query = <<>>
    /\ LET root == barnes_hut_root[1]
           g == BarnesHutNode_get_gravitational_field_exerted(root, point, theta, particle_id)
           e == BarnesHutNode_get_electric_field_exerted(root, point, theta, particle_id)
           b == BarnesHutNode_get_magnetic_field_exerted(root, point, theta, particle_id)
       IN  /\ field' = <<[g |-> g, e |-> e, b |-> b]>>
           /\ visited' = <<[g |-> NodesVisited("g", root, <<>>, point, theta),
                            e |-> NodesVisited("e", root, <<>>, point, theta),
                            b |-> NodesVisited("b", root, <<>>, point, theta)]>>
           /\ force' = <<get_force_experienced(
                             Experiencer(particles_list, point, particle_id), g, e, b)>>
    /\ query' = <<[point |-> point, theta |-> theta, particle_id |-> particle_id]>>
    /\ particles_list' =
           [j \in 1..Len(particles_list) |->
               [particles_list[j] EXCEPT !.acceleration =
                   IF particles_list[j].ID = particle_id THEN force'[1] ELSE @]]
    /\ UNCHANGED <<current_id, barnes_hut_root, raised, simvars, libvars>>

\* the three root queries of one (point, theta, particle_id), as
\* calculate_particle_force and bh_test make them.  One query is followed per tree:
\* a query writes nothing the next one reads.
Query(point, theta, particle_id) ==
    /\ barnes_hut_root # <<>>
    /\ query = <<>>
    /\ LET root == barnes_hut_root[1]
           g == BarnesHutNode_get_gravitational_field_exerted(root, point, theta, particle_id)
           e == BarnesHutNode_get_electric_field_exerted(root, point, theta, particle_id)
           b == BarnesHutNode_get_magnetic_field_exerted(root, point, theta, particle_id)
       IN  /\ field' = <<[g |-> g, e |-> e, b |-> b]>>
           /\ visited' = <<[g |-> NodesVisited("g", root, <<>>, point, theta),
                            e |-> NodesVisited("e", root, <<>>, point, theta),
                            b |-> NodesVisited("b", root, <<>>, point, theta)]>>
           /\ force' = <<get_force_experienced(
                             Experiencer(particles_list, point, particle_id), g, e, b)>>
    /\ query' = <<[point |-> point, theta |-> theta, particle_id |-> particle_id]>>
    /\ UNCHANGED <<current_id, particles_list, barnes_hut_root, raised, simvars, libvars>>

Next ==
    \/ \E position \in Positions, kind \in Kinds :
           NewParticle(position, kind.velocity, kind.mass, kind.charge)
    \/ Build
    \/ \E args \in QueryArgs(particles_list), theta \in Thetas :
           Query(args[1], theta, args[2])

Spec == Init /\ [][Next]_vars

---------------------------------------------------------------------------
(* the same script given particles without mass, charges of both signs, and a *)
(* negative theta                                                              *)

\* most particles of a list of this specification
MaxSigned == 2

\* (mass, charge, velocity) of the particles offered
SignedKinds ==
    {[mass |-> 0, charge |-> 0, velocity |-> Zero3],
     [mass |-> 1, charge |-> 1, velocity |-> <<0, 0, 1>>],
     [mass |-> 1, charge |-> -1, velocity |-> <<0, 0, 1>>]}

\* the values of theta offered: -1/2, 1/2 and 2
SignedThetas ==
    {[num |-> -1, den |-> 2], [num |-> 1, den |-> 2], [num |-> 2, den |-> 1]}

SignedNext ==
    \/ \E position \in Positions, kind \in SignedKinds :
           /\ Len(particles_list) < MaxSigned
           /\ NewParticle(position, kind.velocity, kind.mass, kind.charge)
    \/ Build
    \/ \E args \in QueryArgs(particles_list), theta \in SignedThetas :
           Query(args[1], theta, args[2])

SignedSpec == Init /\ [][SignedNext]_vars

---------------------------------------------------------------------------
(* the same script given a particle off the axes                            *)

\* most particles of a list of this specification
MaxOctant == 2

\* the particle positions offered: (0, 0, 0), (8, 0.5, 0) and (10, 0, 0)
OctantPositions ==
    {<<0, 0, 0>>,
     <<Fl(8 * QuantaPerMetre), Fl(QuantaPerMetre \div 2), 0>>,
     <<Fl(10 * QuantaPerMetre), 0, 0>>}

OctantNext ==
    \/ \E position \in OctantPositions, kind \in Kinds :
           /\ Len(particles_list) < MaxOctant
           /\ NewParticle(position, kind.velocity, kind.mass, kind.charge)
    \/ Build
    \/ \E args \in QueryArgs(particles_list), theta \in Thetas :
           Query(args[1], theta, args[2])

OctantSpec == Init /\ [][OctantNext]_vars

---------------------------------------------------------------------------
(* Simulation: run and time_step *)

\* Simulation.time_step_size, in seconds: the constructor's default
time_step_size == 1
\* largest num_time_steps given to run
MaxTicks == 2

VecFl(a) == <<Fl(a[1]), Fl(a[2]), Fl(a[3])>>

VecHalf(a) == <<Half(a[1]), Half(a[2]), Half(a[3])>>

\* the index in a list of the particle object with this ID
IndexOf(particles, id) == CHOOSE i \in 1..Len(particles) : particles[i].ID = id

\* a node's PARTICLES are references to the caller's particle objects: the tree as a
\* query finds it when the objects are in the state the list gives
RECURSIVE LiveNode(_, _)
LiveNode(node, particles) ==
    [node EXCEPT
        !.PARTICLES = [i \in 1..Len(node.PARTICLES) |->
                          particles[IndexOf(particles, node.PARTICLES[i].ID)]],
        !.CHILD_NODES = [k \in 1..Len(node.CHILD_NODES) |->
                            LiveNode(node.CHILD_NODES[k], particles)]]

\* Simulation.calculate_particle_force, with the three uniform fields zero
calculate_particle_force(particle, root, position, theta) ==
    get_force_experienced(
        particle,
        BarnesHutNode_get_gravitational_field_exerted(root, position, theta, particle.ID),
        BarnesHutNode_get_electric_field_exerted(root, position, theta, particle.ID),
        BarnesHutNode_get_magnetic_field_exerted(root, position, theta, particle.ID))
    (+) get_force_experienced(particle, ZeroField, ZeroField, ZeroField)

\* force / particle.MASS
Acceleration(force_on, particle) ==
    BagOfAll(LAMBDA t : [force |-> t, per |-> particle.MASS], force_on)

\* a variant of the recording below that stamps a row with the number of the tick to come
record_particle_data_next_tick(data, step, particle) ==
    Append(data, [t |-> (step + 1) * time_step_size,
                  x |-> particle.position[1],
                  y |-> particle.position[2],
                  z |-> particle.position[3]])

\* Simulation.record_particle_data: particles_data with the particle's row appended
record_particle_data(data, step, particle) ==
    Append(data, [t |-> step * time_step_size,
                  x |-> particle.position[1],
                  y |-> particle.position[2],
                  z |-> particle.position[3]])

\* the four accelerations of the Runge-Kutta method for one particle
rk4_accelerations(particle, root, theta) ==
    LET half_step == VecFl(VecAdd(particle.position,
                                  VecHalf(VecScale(time_step_size, particle.velocity))))
    IN  <<Acceleration(calculate_particle_force(particle, root, particle.position, theta),
                       particle),
          Acceleration(calculate_particle_force(particle, root, particle.position, theta),
                       particle),
          Acceleration(calculate_particle_force(particle, root, half_step, theta), particle),
          Acceleration(calculate_particle_force(particle, root, half_step, theta), particle)>>

\* new_data[i]: the new position, and the new velocity as the old one plus
\* time_step_size / 6 * (a[1] + 2 a[2] + 2 a[3] + a[4])
NewData(particle, root, theta) ==
    [position |-> VecFl(VecAdd(particle.position,
                               VecScale(time_step_size, particle.velocity))),
     velocity |-> particle.velocity,
     accelerations |-> rk4_accelerations(particle, root, theta)]

\* a variant of the construction below that keeps a tree once there is one
TryBuild_keeps_tree(particles) ==
    IF barnes_hut_root # <<>> THEN [raised |-> "", root |-> barnes_hut_root]
    ELSE IF particles = <<>> THEN [raised |-> "ValueError", root |-> <<>>]
    ELSE LET root == RootNode(particles)
         IN  IF root.overflow THEN [raised |-> "RecursionError", root |-> <<>>]
             ELSE [raised |-> "", root |-> <<root>>]

\* BarnesHutNode(self.particles_list): <<root>>, or the exception raised
TryBuild(particles) ==
    IF particles = <<>> THEN [raised |-> "ValueError", root |-> <<>>]
    ELSE LET root == RootNode(particles)
         IN  IF root.overflow THEN [raised |-> "RecursionError", root |-> <<>>]
             ELSE [raised |-> "", root |-> <<root>>]

\* the list with every object that also is in objects in the state it has there
Stored(list, objects) ==
    [i \in 1..Len(list) |->
        IF \E j \in 1..Len(objects) : objects[j].ID = list[i].ID
        THEN objects[IndexOf(objects, list[i].ID)]
        ELSE list[i]]

\* run's loop head; when a tick is left to do, time_step up to its first loop
RunLoop ==
    /\ phase = "run"
    /\ IF current_time_step < num_time_steps
       THEN \E built \in {TryBuild(self_particles_list)} :
                /\ raised' = built.raised
                /\ barnes_hut_root' = built.root
                /\ phase' = IF built.raised # "" THEN "raised" ELSE "force"
                /\ index' = IF built.raised # "" THEN 0 ELSE 1
                /\ new_data' = <<>>
                /\ tick_start' = IF built.raised # "" THEN tick_start
                                 ELSE Append(tick_start, particles_list)
       ELSE /\ phase' = IF particles_list = <<>> THEN "done" ELSE "final"
            /\ index' = IF particles_list = <<>> THEN 0 ELSE 1
            /\ tick_start' = Append(tick_start, particles_list)
            /\ UNCHANGED <<raised, barnes_hut_root, new_data>>
    /\ UNCHANGED <<current_id, particles_list, query, field, visited, force, sim_theta,
                   num_time_steps, current_time_step, particles_data,
                   self_particles_list, libvars>>

\* a variant of the step below that stores the new position and velocity at once
ForceStep_writes_early ==
    /\ phase = "force"
    /\ \E entry \in {NewData(particles_list[index],
                                LiveNode(barnes_hut_root[1], self_particles_list),
                                sim_theta)} :
           /\ particles_list' =
                  [particles_list EXCEPT ![index].acceleration = entry.accelerations[1],
                                         ![index].position = entry.position,
                                         ![index].velocity = entry.velocity]
           /\ self_particles_list' = Stored(self_particles_list, particles_list')
           /\ particles_data' = record_particle_data(particles_data, current_time_step,
                                                    particles_list[index])
           /\ new_data' = Append(new_data, entry)
    /\ IF index < Len(particles_list)
       THEN /\ index' = index + 1
            /\ UNCHANGED phase
       ELSE /\ index' = 1
            /\ phase' = "write"
    /\ UNCHANGED <<current_id, barnes_hut_root, raised, query, field, visited, force,
                   sim_theta, num_time_steps, current_time_step, tick_start, libvars>>

\* one pass of time_step's first loop: the particle's acceleration, its row of data,
\* the Runge-Kutta stages and new_data[i]
ForceStep ==
    /\ phase = "force"
    /\ \E entry \in {NewData(particles_list[index],
                                LiveNode(barnes_hut_root[1], self_particles_list),
                                sim_theta)} :
           /\ particles_list' =
                  [particles_list EXCEPT ![index].acceleration = entry.accelerations[1]]
           /\ self_particles_list' = Stored(self_particles_list, particles_list')
           /\ particles_data' = record_particle_data(particles_data, current_time_step,
                                                    particles_list[index])
           /\ new_data' = Append(new_data, entry)
    /\ IF index < Len(particles_list)
       THEN /\ index' = index + 1
            /\ UNCHANGED phase
       ELSE /\ index' = 1
            /\ phase' = "write"
    /\ UNCHANGED <<current_id, barnes_hut_root, raised, query, field, visited, force,
                   sim_theta, num_time_steps, current_time_step, tick_start, libvars>>

\* a variant of the step below that counts a tick at every pass
WriteStep_counts_each_pass ==
    /\ phase = "write"
    /\ particles_list' = [particles_list EXCEPT ![index].position = new_data[index].position,
                                                ![index].velocity = new_data[index].velocity]
    /\ self_particles_list' = Stored(self_particles_list, particles_list')
    /\ current_time_step' = current_time_step + 1
    /\ IF index < Len(particles_list)
       THEN /\ index' = index + 1
            /\ UNCHANGED phase
       ELSE /\ index' = 0
            /\ phase' = "run"
    /\ UNCHANGED <<current_id, barnes_hut_root, raised, query, field, visited, force,
                   sim_theta, num_time_steps, particles_data, new_data, tick_start,
                   libvars>>

\* one pass of time_step's second loop; after the last, the tick is counted
WriteStep ==
    /\ phase = "write"
    /\ particles_list' = [particles_list EXCEPT ![index].position = new_data[index].position,
                                                ![index].velocity = new_data[index].velocity]
    /\ self_particles_list' = Stored(self_particles_list, particles_list')
    /\ IF index < Len(particles_list)
       THEN /\ index' = index + 1
            /\ UNCHANGED <<phase, current_time_step>>
       ELSE /\ index' = 0
            /\ phase' = "run"
            /\ current_time_step' = current_time_step + 1
    /\ UNCHANGED <<current_id, barnes_hut_root, raised, query, field, visited, force,
                   sim_theta, num_time_steps, particles_data, new_data, tick_start,
                   libvars>>

\* one pass of the loop that ends run: a tree, the particle's acceleration, its row
FinalStep ==
    /\ phase = "final"
    /\ \E built \in {TryBuild(self_particles_list)}, particle \in {particles_list[index]} :
           IF built.raised # ""
           THEN /\ raised' = built.raised
                /\ barnes_hut_root' = <<>>
                /\ phase' = "raised"
                /\ UNCHANGED <<particles_list, self_particles_list, particles_data, index>>
           ELSE /\ barnes_hut_root' = built.root
                /\ particles_list' =
                       [particles_list EXCEPT ![index].acceleration =
                           Acceleration(calculate_particle_force(
                                            particle, built.root[1], particle.position,
                                            sim_theta),
                                        particle)]
                /\ self_particles_list' = Stored(self_particles_list, particles_list')
                /\ particles_data' =
                       record_particle_data(particles_data, current_time_step, particle)
                /\ IF index < Len(particles_list)
                   THEN /\ index' = index + 1
                        /\ UNCHANGED phase
                   ELSE /\ index' = 0
                        /\ phase' = "done"
                /\ UNCHANGED raised
    /\ UNCHANGED <<current_id, query, field, visited, force, sim_theta, num_time_steps,
                   current_time_step, new_data, tick_start, libvars>>

\* the positions of the particles an input file gives: (0, 0, 0), (10, 0, 0), (0, 10, 0)
TickPositions ==
    {<<0, 0, 0>>, <<Fl(10 * QuantaPerMetre), 0, 0>>, <<0, Fl(10 * QuantaPerMetre), 0>>}

\* (mass, charge, velocity) of the particles an input file gives: a light one at rest
\* and a heavy one moving at 1 m/s along x
TickKinds ==
    {[mass |-> 1, charge |-> 0, velocity |-> Zero3],
     [mass |-> 16, charge |-> 0, velocity |-> <<QuantaPerMetre, 0, 0>>]}

\* theta of an input file: the default 1/2, and 2
TickThetas == {[num |-> 1, den |-> 2], [num |-> 2, den |-> 1]}

\* the particle list main.py builds from the entries of an input file: IDs 0, 1, ...
\* in list order
TickList(entries) ==
    [i \in 1..Len(entries) |->
        PointParticle(entries[i][1], entries[i][2].velocity, entries[i][2].mass,
                      entries[i][2].charge, i - 1)]

\* main.py up to the call of simulation.run(num_time_steps)
TickInit ==
    /\ \E n \in 0..MaxParticles :
           \E entries \in [1..n -> TickPositions \X TickKinds] :
               particles_list = TickList(entries)
    /\ current_id = Len(particles_list)
    /\ barnes_hut_root = <<>>
    /\ raised = ""
    /\ query = <<>>
    /\ field = <<>>
    /\ visited = <<>>
    /\ force = <<>>
    /\ phase = "run"
    /\ index = 0
    /\ sim_theta \in TickThetas
    /\ num_time_steps \in 0..MaxTicks
    /\ current_time_step = 0
    /\ particles_data = <<>>
    /\ new_data = <<>>
    /\ tick_start = <<>>
    /\ self_particles_list = particles_list
    /\ LibInit

TickNext == RunLoop \/ ForceStep \/ WriteStep \/ FinalStep

TickSpec == TickInit /\ [][TickNext]_vars

---------------------------------------------------------------------------
(* a program whose module-level particles_list is not the list its Simulation was *)
(* given                                                                          *)

\* longest list of such a program
MaxClient == 1

\* the objects of a list made after `before` particles were made
ClientList(entries, before) ==
    [i \in 1..Len(entries) |->
        PointParticle(entries[i][1], entries[i][2].velocity, entries[i][2].mass,
                      entries[i][2].charge, before + i - 1)]

\* the program made particles_list, then either gave it to the Simulation or made a
\* second list for it, and called run(num_time_steps)
ClientInit ==
    /\ \E n \in 1..MaxClient :
           \E entries \in [1..n -> TickPositions \X TickKinds] :
               particles_list = ClientList(entries, 0)
    /\ \/ self_particles_list = particles_list
       \/ \E n \in 1..MaxClient :
              \E entries \in [1..n -> TickPositions \X TickKinds] :
                  self_particles_list = ClientList(entries, Len(particles_list))
    /\ current_id = IF self_particles_list = particles_list
                    THEN Len(particles_list)
                    ELSE Len(particles_list) + Len(self_particles_list)
    /\ barnes_hut_root = <<>>
    /\ raised = ""
    /\ query = <<>>
    /\ field = <<>>
    /\ visited = <<>>
    /\ force = <<>>
    /\ phase = "run"
    /\ index = 0
    /\ sim_theta \in TickThetas
    /\ num_time_steps \in 0..MaxTicks
    /\ current_time_step = 0
    /\ particles_data = <<>>
    /\ new_data = <<>>
    /\ tick_start = <<>>
    /\ LibInit

ClientSpec == ClientInit /\ [][TickNext]_vars

---------------------------------------------------------------------------
(* FileHandler: the output file *)

\* most strings the output file comes to hold
MaxWrites == 3

\* the strings a caller appends: the default, a header and a row of data
OutputStrings == {"newline", "header", "row"}

\* what a call leaves in `returned`: the method, the state of output_io_wrapper when
\* it was called, and the value returned
Returned(method, value) ==
    <<[method |-> method, was |-> output_io_wrapper, value |-> value]>>

\* FileHandler.open_output_file; ok is whether the operating system opens the file
open_output_file(ok) ==
    /\ raised = ""
    /\ output_io_wrapper' = IF ok THEN "open" ELSE output_io_wrapper
    /\ returned' = Returned("open_output_file", ok)
    /\ UNCHANGED <<current_id, particles_list, barnes_hut_root, raised, query, field,
                   visited, force, simvars, output_file, default_initial_values,
                   caller_values, eulers_calls>>

\* FileHandler.append_to_output_file; ok is whether the operating system opens and
\* writes the file.  A write to a closed TextIOWrapper raises ValueError, which the
\* method does not catch.
append_to_output_file(output_string, ok) ==
    /\ raised = ""
    /\ Len(output_file) < MaxWrites
    /\ IF output_io_wrapper = "closed"
       THEN /\ raised' = "ValueError"
            /\ UNCHANGED <<output_file, returned>>
       ELSE /\ output_file' = IF ok THEN Append(output_file, output_string)
                                  ELSE output_file
            /\ returned' = Returned("append_to_output_file", ok)
            /\ UNCHANGED raised
    /\ UNCHANGED <<current_id, particles_list, barnes_hut_root, query, field, visited,
                   force, simvars, output_io_wrapper, default_initial_values,
                   caller_values, eulers_calls>>

\* FileHandler.clear_output_file; ok is whether the operating system truncates the
\* file.  truncate of a closed TextIOWrapper raises ValueError.
clear_output_file(ok) ==
    /\ raised = ""
    /\ IF output_io_wrapper = "closed"
       THEN /\ raised' = "ValueError"
            /\ UNCHANGED <<output_file, returned>>
       ELSE /\ output_file' = IF ok THEN <<>> ELSE output_file
            /\ returned' = Returned("clear_output_file", ok)
            /\ UNCHANGED raised
    /\ UNCHANGED <<current_id, particles_list, barnes_hut_root, query, field, visited,
                   force, simvars, output_io_wrapper, default_initial_values,
                   caller_values, eulers_calls>>

\* FileHandler.close_output_file; close() of a TextIOWrapper already closed does
\* nothing and raises nothing
close_output_file ==
    /\ raised = ""
    /\ IF output_io_wrapper = "None"
       THEN /\ returned' = Returned("close_output_file", FALSE)
            /\ UNCHANGED output_io_wrapper
       ELSE /\ output_io_wrapper' = "closed"
            /\ returned' = Returned("close_output_file", TRUE)
    /\ UNCHANGED <<current_id, particles_list, barnes_hut_root, raised, query, field,
                   visited, force, simvars, output_file, default_initial_values,
                   caller_values, eulers_calls>>

FileNext ==
    \/ \E ok \in BOOLEAN : open_output_file(ok)
    \/ \E output_string \in OutputStrings, ok \in BOOLEAN :
           append_to_output_file(output_string, ok)
    \/ \E ok \in BOOLEAN : clear_output_file(ok)
    \/ close_output_file

FileSpec == Init /\ [][FileNext]_vars

---------------------------------------------------------------------------
(* NumericalIntegration.eulers *)

\* most calls of eulers a program makes
MaxCalls == 2

\* the derivatives given: the constant (1, 1, 1), and the values themselves
Derivatives == {"ones", "values"}

derivative_of(derivative, time, values) ==
    IF derivative = "ones" THEN <<1, 1, 1>> ELSE values

\* the loop of eulers: values += derivative(time, values) * abs(time_step_size),
\* num_time_steps times
RECURSIVE EulerLoop(_, _, _, _, _)
EulerLoop(derivative, values, time, step, steps_left) ==
    IF steps_left = 0 THEN values
    ELSE EulerLoop(derivative,
                   VecAdd(values, VecScale(Abs(step), derivative_of(derivative, time, values))),
                   time + step, step, steps_left - 1)

\* NumericalIntegration.eulers(derivative, initial_values, 0.0, step, steps), where
\* initial_values is the caller's array or, when none is passed, the default.  values
\* is the same array as initial_values, and += stores into it.
eulers(derivative, passed, step, steps) ==
    /\ raised = ""
    /\ Len(eulers_calls) < MaxCalls
    /\ \E initial_values \in {IF passed THEN caller_values ELSE default_initial_values} :
           IF step = 0 \/ steps < 1
           THEN /\ eulers_calls' =
                       Append(eulers_calls,
                              [derivative |-> derivative, passed |-> passed, step |-> step,
                               steps |-> steps, initial_values |-> initial_values,
                               result |-> <<>>])
                /\ UNCHANGED <<default_initial_values, caller_values>>
           ELSE \E values \in {EulerLoop(derivative, initial_values, 0, step, steps)} :
                    /\ eulers_calls' =
                           Append(eulers_calls,
                                  [derivative |-> derivative, passed |-> passed,
                                   step |-> step, steps |-> steps,
                                   initial_values |-> initial_values,
                                   result |-> <<values>>])
                    /\ caller_values' = IF passed THEN values ELSE caller_values
                    /\ default_initial_values' =
                           IF passed THEN default_initial_values ELSE values
    /\ UNCHANGED <<current_id, particles_list, barnes_hut_root, raised, query, field,
                   visited, force, simvars, output_io_wrapper, output_file, returned>>

\* the step sizes and step counts given
EulerStepSizes == {-1, 0, 1}

EulerStepCounts == {0, 1, 2}

EulerNext ==
    \E derivative \in Derivatives, passed \in BOOLEAN, step \in EulerStepSizes,
       steps \in EulerStepCounts :
        eulers(derivative, passed, step, steps)

EulerSpec == Init /\ [][EulerNext]_vars

---------------------------------------------------------------------------
(* vocabulary of the properties *)

Built == barnes_hut_root # <<>>

Asked == query # <<>>

Root == barnes_hut_root[1]

FieldKinds == {"g", "e", "b"}

\* every node of the tree under `node`
RECURSIVE AllNodes(_)
AllNodes(node) ==
    {node} \cup UNION {AllNodes(node.CHILD_NODES[k]) : k \in 1..Len(node.CHILD_NODES)}

\* every <<parent, child>> of the tree under `node`
ChildPairs(node) ==
    UNION {{<<n, n.CHILD_NODES[k]>> : k \in 1..Len(n.CHILD_NODES)} : n \in AllNodes(node)}

\* the O(N) sum: every particle's own field at the point, the excluded particle left
\* out at its own position
DirectField(kind, particles, point, particle_id) ==
    BagSum([i \in 1..Len(particles) |->
               IF particles[i].ID = particle_id /\ particles[i].position = point
               THEN ZeroField
               ELSE PointParticle_get_field_exerted(kind, particles[i], point)])

\* a <= b for fractions with positive denominators
ThetaLeq(a, b) == a.num * b.den <= b.num * a.den

\* the extent of a bounds pair
Extent(b) == b[2] - b[1]

---------------------------------------------------------------------------
(* properties *)

\* C1: a root query with theta = 0 returns, for each of the three fields, the direct
\* sum of the exact contribution of every particle, each summed exactly once (the
\* excluded particle left out at its own position).
C1_ExactAtThetaZero ==
    (Asked /\ query[1].theta.num = 0) =>
        \A kind \in FieldKinds :
            field[1][kind] =
                DirectField(kind, particles_list, query[1].point, query[1].particle_id)

\* C2: for every theta, a root query at a particle's own position with that
\* particle's ID excluded sums no source term that holds the particle's mass or
\* charge.
C2_SelfExcluded ==
    (Asked /\ query[1].particle_id # -1) =>
        \A kind \in FieldKinds :
            \A t \in BagToSet(field[1][kind]) : query[1].particle_id \notin t.ids

\* the list is two particles of mass 1 and charge 0 that are 10 m apart
TwoBodies ==
    /\ Len(particles_list) = 2
    /\ \A i \in 1..2 : particles_list[i].MASS = 1 /\ particles_list[i].CHARGE = 0
    /\ Norm2(VecSub(particles_list[1].position, particles_list[2].position))
           = Fl(10 * QuantaPerMetre) * Fl(10 * QuantaPerMetre)

\* C3: for two particles of mass 1 and charge 0 that are 10 m apart, the root's
\* gravitational field at one particle's position, with theta = 0 and that particle
\* excluded, is exactly one exact contribution of the other particle (G * 1 / 10^2).
C3_TwoBodyField ==
    (Asked /\ TwoBodies /\ query[1].theta.num = 0 /\ query[1].particle_id # -1) =>
        \A i \in 1..2 :
            particles_list[i].ID # query[1].particle_id =>
                field[1].g =
                    PointParticle_get_gravitational_field_exerted(particles_list[i],
                                                                  query[1].point)

\* C4: the root built with inferred bounds holds every particle of the list, and its
\* TOTAL_MASS is the sum of the masses of the list.
C4_MassConservation ==
    Built =>
        /\ Root.PARTICLES = particles_list
        /\ Root.TOTAL_MASS =
               SumSeq([i \in 1..Len(particles_list) |-> particles_list[i].MASS])

\* C5: when the total mass of the list is not zero, the root's CENTER_OF_MASS is the
\* mass-weighted average of the positions of all particles of the list.
C5_CentreOfMass ==
    LET mass == SumSeq([i \in 1..Len(particles_list) |-> particles_list[i].MASS])
        moment == SumVec([i \in 1..Len(particles_list) |->
                             VecScale(particles_list[i].MASS, particles_list[i].position)])
    IN  (Built /\ mass # 0) =>
            VecScale(mass, Root.CENTER_OF_MASS.num)
                = VecScale(Root.CENTER_OF_MASS.den, moment)

\* C6: construction terminates for every particle list, lists with particles at
\* identical positions included: it never runs out of stack.
C6_BuildTerminates == raised # "RecursionError"

C8_CubicInvariant ==
    Built =>
        \A pc \in ChildPairs(Root) :
            /\ Extent(pc[2].X_BOUNDS) = pc[2].SIZE
            /\ Extent(pc[2].Y_BOUNDS) = pc[2].SIZE
            /\ Extent(pc[2].Z_BOUNDS) = pc[2].SIZE
            /\ 2 * pc[2].SIZE = pc[1].SIZE

\* C9: for the tree and point of a query, the nodes a query with a larger theta
\* visits are among those a query with a smaller theta visits.
C9_Monotonic ==
    Asked =>
        \A kind \in FieldKinds, theta \in Thetas :
            LET other == NodesVisited(kind, Root, <<>>, query[1].point, theta)
            IN  /\ ThetaLeq(query[1].theta, theta) => other \subseteq visited[1][kind]
                /\ ThetaLeq(theta, query[1].theta) => visited[1][kind] \subseteq other

\* a query with theta = 1 that left out nodes a query with theta = 0 visits and
\* visited nodes a query with theta = 2 leaves out
C9_Witness ==
    /\ Asked
    /\ query[1].theta = [num |-> 1, den |-> 1]
    /\ \E kind \in FieldKinds :
           /\ visited[1][kind] #
                  NodesVisited(kind, Root, <<>>, query[1].point, [num |-> 0, den |-> 1])
           /\ visited[1][kind] #
                  NodesVisited(kind, Root, <<>>, query[1].point, [num |-> 2, den |-> 1])

\* C10: the electrostatic force on a particle of charge q1 in the electric field of a
\* particle of charge q2 elsewhere points away from the source (along r = point -
\* source) when q1 and q2 have the same sign, and toward it when the signs differ.
C10_LikeChargesRepel ==
    Asked =>
        \A ft \in BagToSet(force[1]) :
            (ft.field.kind = "e" /\ Cardinality(ft.field.ids) = 1) =>
                LET along == ft.factor * ft.field.sign * ft.field.q
                IN  /\ ft.factor * ft.field.q > 0 => along > 0
                    /\ ft.factor * ft.field.q < 0 => along < 0

\* C15: building from an empty list with no bounds given succeeds and gives a leaf
\* with no particles, total mass 0 and total charge 0; building from a list of one
\* particle gives a leaf that holds the particle.
C15_EmptyAndSingleton ==
    /\ raised # "ValueError"
    /\ (Built /\ Len(particles_list) <= 1) =>
           /\ Root.PARTICLES = particles_list
           /\ Root.CHILD_NODES = <<>>
           /\ particles_list = <<>> => (Root.TOTAL_MASS = 0 /\ Root.TOTAL_CHARGE = 0)

\* C16: the particles constructed so far have pairwise distinct IDs, a particle
\* constructed later has a greater ID than every earlier one, and the counter is
\* beyond every ID given out, so no ID is given again.
C16_UniqueIds ==
    /\ \A j \in 1..Len(particles_list), k \in 1..Len(particles_list) :
           /\ j < k => particles_list[j].ID < particles_list[k].ID
           /\ j # k => ~PointParticle_eq(particles_list[j], particles_list[k])
    /\ \A j \in 1..Len(particles_list) : particles_list[j].ID < current_id

\* three particles have been constructed
C16_Witness == Len(particles_list) = 3 /\ particles_list[3].ID = 2

\* C17: cube_bounds, here applied by __init__ to the inferred bounds of the list,
\* returns a cube whose edge on every axis is the largest of the three input
\* extents, whose centroid is the centroid of the input box, and which contains the
\* input box.
C17_CubeBounds ==
    Built =>
        LET box == [k \in 1..3 |-> InferredBounds(particles_list, k)]
            cube == cube_bounds(box[1], box[2], box[3]).bounds
            largest == MaxOf({Extent(box[k]) : k \in 1..3})
        IN  \A k \in 1..3 :
                /\ Extent(cube[k]) = largest
                /\ cube[k][1] + cube[k][2] = box[k][1] + box[k][2]
                /\ cube[k][1] <= box[k][1]
                /\ box[k][2] <= cube[k][2]

\* C19: for every cell with children, TOTAL_MASS, TOTAL_CHARGE and the
\* charge-velocity moment are the sums of those of its 8 children.
C19_AggregatesOfChildren ==
    Built =>
        \A n \in AllNodes(Root) :
            Len(n.CHILD_NODES) > 0 =>
                /\ n.TOTAL_MASS = SumSeq([k \in 1..8 |-> n.CHILD_NODES[k].TOTAL_MASS])
                /\ n.TOTAL_CHARGE = SumSeq([k \in 1..8 |-> n.CHILD_NODES[k].TOTAL_CHARGE])
                /\ n.CENTER_OF_CHARGE_VELOCITY.num =
                       SumVec([k \in 1..8 |-> n.CHILD_NODES[k].CENTER_OF_CHARGE_VELOCITY.num])

\* C13: a field query with theta < 0 is rejected: it ends in an error and returns no
\* field.
C13_NegativeThetaRejected ==
    (Asked /\ query[1].theta.num < 0) => (raised # "" /\ field = <<>>)

\* C14: no particle of zero or negative mass is ever constructed.
C14_MassPositive ==
    \A j \in 1..Len(particles_list) : particles_list[j].MASS > 0

\* the formal sum is the zero vector: the summands with the same kind, r and v
\* cancel
IsZeroField(f) ==
    \A t \in BagToSet(f) :
        LET like == {u \in BagToSet(f) : u.kind = t.kind /\ u.r = t.r /\ u.v = t.v}
            weight(u) == u.sign * u.q * CopiesIn(u, f)
            RECURSIVE Total(_)
            Total(S) == IF S = {} THEN 0
                        ELSE LET u == CHOOSE x \in S : TRUE
                             IN  weight(u) + Total(S \ {u})
        IN  Total(like) = 0

\* C20: for every cell of the tree and every query with theta >= 0, a cell whose
\* total mass is 0 returns the zero vector as gravitational field, and a cell whose
\* total charge is 0 returns the zero vector as electric and as magnetic field.
C20_ZeroTotalZeroField ==
    (Asked /\ query[1].theta.num >= 0) =>
        \A n \in AllNodes(Root) :
            LET of(kind) ==
                    NodeField(kind, n, query[1].point, query[1].theta, query[1].particle_id)
            IN  /\ n.TOTAL_MASS = 0 => IsZeroField(of("g"))
                /\ n.TOTAL_CHARGE = 0 => (IsZeroField(of("e")) /\ IsZeroField(of("b")))

---------------------------------------------------------------------------
(* the tick *)

\* the particles as the tick under way, or the final recording, found them
TickStart == tick_start[Len(tick_start)]

C12_OrderIndependent ==
    (phase = "write" /\ index = 1) =>
        \A perm \in Permutations(1..Len(particles_list)) :
            \E reordered \in {[i \in 1..Len(TickStart) |-> TickStart[perm[i]]]} :
                \E built \in {TryBuild(reordered)} :
                    /\ built.raised = ""
                    /\ \A i \in 1..Len(reordered) :
                           NewData(reordered[i], built.root[1], sim_theta)
                               = new_data[IndexOf(particles_list, reordered[i].ID)]

\* C18: every tick records one (time, position) row per particle, stamped with
\* tick counter * time_step_size and holding the position the particle had when the
\* tick began; each completed tick has added exactly one row per particle, and after
\* run(n) on N particles the record holds (n + 1) * N rows, the last N being the
\* final state.
C18_OneSnapshotPerParticlePerTick ==
    /\ \A k \in 1..Len(particles_data) :
           LET tick == (k - 1) \div Len(particles_list)
               j == ((k - 1) % Len(particles_list)) + 1
           IN  /\ particles_data[k].t = tick * time_step_size
               /\ <<particles_data[k].x, particles_data[k].y, particles_data[k].z>>
                      = tick_start[tick + 1][j].position
    /\ phase = "run" => Len(particles_data) = current_time_step * Len(particles_list)
    /\ phase = "force" =>
           Len(particles_data) = current_time_step * Len(particles_list) + index - 1
    /\ phase = "write" =>
           Len(particles_data) = (current_time_step + 1) * Len(particles_list)
    /\ phase = "done" => Len(particles_data) = (num_time_steps + 1) * Len(particles_list)

\* run(2) on three particles has returned, and the first particle was recorded at
\* different places
C18_Witness ==
    /\ phase = "done"
    /\ num_time_steps = MaxTicks
    /\ Len(particles_list) = 3
    /\ particles_data[1].x # particles_data[4].x

\* the IDs of the objects of a list
IdsOf(list) == {list[i].ID : i \in 1..Len(list)}

\* C29: in every tick, and in the recording that ends run, the particles whose forces
\* are computed and whose position and velocity are updated are exactly the particles
\* of the Simulation's own particles_list, the list the tree is built from.
C29_OwnParticlesUpdated ==
    phase \in {"force", "write", "final"} =>
        /\ IdsOf(particles_list) = IdsOf(self_particles_list)
        /\ \E j \in 1..Len(self_particles_list) :
               self_particles_list[j].ID = particles_list[index].ID

---------------------------------------------------------------------------
(* the octants *)

\* the bounds of a node on the three axes
BoundsOf(n) == <<n.X_BOUNDS, n.Y_BOUNDS, n.Z_BOUNDS>>

\* C25: the 8 children of an internal cell are its 8 octants: on every axis there is
\* a cut between the parent's bounds such that each child's bounds are [lower, cut]
\* or [cut, upper], and the 8 combinations occur once each (so that the children
\* together cover the parent's cube).
C25_ChildrenAreOctants ==
    Built =>
        \A n \in AllNodes(Root) :
            Len(n.CHILD_NODES) > 0 =>
                /\ Cardinality({BoundsOf(n.CHILD_NODES[k]) : k \in 1..8}) = 8
                /\ \A axis \in 1..3 :
                       \E k0 \in 1..8 :
                           LET lower == BoundsOf(n)[axis][1]
                               upper == BoundsOf(n)[axis][2]
                               cut == BoundsOf(n.CHILD_NODES[k0])[axis][2]
                           IN  /\ lower <= cut
                               /\ cut <= upper
                               /\ \A k \in 1..8 :
                                      BoundsOf(n.CHILD_NODES[k])[axis]
                                          \in {<<lower, cut>>, <<cut, upper>>}

\* C28: the leaves partition the particles: each particle of an internal cell is in
\* the PARTICLES of exactly one of its 8 children, and each particle the root holds
\* is in the PARTICLES of exactly one leaf.
C28_LeavesPartition ==
    Built =>
        /\ \A n \in AllNodes(Root) :
               Len(n.CHILD_NODES) > 0 =>
                   \A id \in IdsOf(n.PARTICLES) :
                       Cardinality({k \in 1..8 : id \in IdsOf(n.CHILD_NODES[k].PARTICLES)}) = 1
        /\ \A id \in IdsOf(Root.PARTICLES) :
               Cardinality({leaf \in AllNodes(Root) :
                               /\ Len(leaf.CHILD_NODES) = 0
                               /\ id \in IdsOf(leaf.PARTICLES)}) = 1

---------------------------------------------------------------------------
(* the acceptance criterion *)

\* the node a path of child indices leads to
RECURSIVE NodeAt(_, _)
NodeAt(node, path) ==
    IF path = <<>> THEN node ELSE NodeAt(node.CHILD_NODES[Head(path)], Tail(path))

\* the squared distance of the point from the node's aggregate centre, times the
\* squared denominator of the centre
Distance2(kind, node, point) ==
    LET centre == IF kind = "g" THEN node.CENTER_OF_MASS ELSE node.CENTER_OF_CHARGE
    IN  Norm2(VecSub(VecScale(centre.den, point), centre.num))

\* the point is not at the node's aggregate centre and SIZE < theta * distance
Accepted(kind, node, point, theta) ==
    LET den == IF kind = "g" THEN node.CENTER_OF_MASS.den ELSE node.CENTER_OF_CHARGE.den
        distance2 == Distance2(kind, node, point)
    IN  /\ distance2 # 0
        /\ theta.num > 0
        /\ node.SIZE * node.SIZE * theta.den * theta.den * den * den
               < theta.num * theta.num * distance2

\* the per-particle sum of a leaf
LeafSum(kind, node, point, particle_id) ==
    BagSum([i \in 1..Len(node.PARTICLES) |->
               IF node.PARTICLES[i].ID # particle_id
               THEN PointParticle_get_field_exerted(kind, node.PARTICLES[i], point)
               ELSE ZeroField])

\* the sum of the per-particle sums of the leaves among the nodes at these paths,
\* but for the leaves the point is at the centre of
RECURSIVE LeafSums(_, _)
LeafSums(kind, paths) ==
    IF paths = {} THEN ZeroField
    ELSE LET path == CHOOSE p \in paths : TRUE
             node == NodeAt(Root, path)
         IN  (IF Len(node.CHILD_NODES) = 0 /\ Distance2(kind, node, query[1].point) # 0
              THEN LeafSum(kind, node, query[1].point, query[1].particle_id)
              ELSE ZeroField)
             (+) LeafSums(kind, paths \ {path})

\* C21: a query goes on into the children of a visited internal cell exactly when
\* the point is at the cell's centre or SIZE < theta * distance does not hold (the cell
\* is then not replaced by a point source); and with theta = 0 no visited cell is
\* accepted, and the field is the sum of the per-particle sums of the leaves visited.
C21_Acceptance ==
    Asked =>
        \A kind \in FieldKinds :
            /\ \A path \in visited[1][kind] :
                   \E node \in {NodeAt(Root, path)} :
                       \A k \in 1..Len(node.CHILD_NODES) :
                           Append(path, k) \in visited[1][kind]
                               <=> /\ Distance2(kind, node, query[1].point) # 0
                                   /\ ~Accepted(kind, node, query[1].point, query[1].theta)
            /\ query[1].theta.num = 0 =>
                   /\ \A path \in visited[1][kind] :
                          ~Accepted(kind, NodeAt(Root, path), query[1].point, query[1].theta)
                   /\ field[1][kind] = LeafSums(kind, visited[1][kind])

\* a query with theta = 0 went through an internal root and found a field
C21_Witness ==
    /\ Asked
    /\ query[1].theta.num = 0
    /\ Len(Root.CHILD_NODES) > 0
    /\ field[1].g # ZeroField

\* C26: a field query is read-only: the step that makes the three queries changes
\* no attribute of any cell of the tree and no position, velocity, acceleration,
\* mass, charge or ID of any particle, nor the ID counter.
C26_QueriesReadOnly ==
    [][query' # query =>
           /\ barnes_hut_root' = barnes_hut_root
           /\ particles_list' = particles_list
           /\ current_id' = current_id]_vars

\* a query that excluded a particle of an internal root and found a force on it
C26_Witness ==
    /\ Asked
    /\ query[1].particle_id # -1
    /\ Len(Root.CHILD_NODES) > 0
    /\ force[1] # ZeroField

---------------------------------------------------------------------------
(* the run *)

\* C22: every tick builds a new tree from the particles as they are when the tick
\* begins, and the queries of the tick go to that tree: while the first loop of a tick
\* runs, the tree is the one a construction from the tick's starting particles gives;
\* and every pass of the loop that ends run queries a tree built in that pass from the
\* particles as they then are.  No tree of an earlier tick is queried again.
C22_FreshTreePerTick ==
    /\ [](phase = "force" => barnes_hut_root = <<RootNode(TickStart)>>)
    /\ [][(phase = "final" /\ phase' # "raised") =>
              barnes_hut_root' = <<RootNode(self_particles_list)>>]_vars

\* the first loop of a later tick runs, and a particle is not where the first tick
\* found it
C22_Witness ==
    /\ phase = "force"
    /\ current_time_step >= 1
    /\ \E j \in 1..Len(particles_list) :
           particles_list[j].position # tick_start[1][j].position

\* C23: run(n) on a fresh simulation executes exactly n ticks and stops: the tick
\* counter never exceeds n, it changes only by 1 and only in the step that stores the
\* last particle's new position and velocity, and when run has returned it equals n
\* and n ticks were begun (none when n = 0).
C23_ExactlyNTicks ==
    /\ [](/\ current_time_step <= num_time_steps
          /\ phase = "done" =>
                 /\ current_time_step = num_time_steps
                 /\ Len(tick_start) = num_time_steps + 1)
    /\ [][current_time_step' # current_time_step =>
              /\ current_time_step' = current_time_step + 1
              /\ phase = "write"
              /\ \A j \in 1..Len(particles_list) :
                     /\ particles_list'[j].position = new_data[j].position
                     /\ particles_list'[j].velocity = new_data[j].velocity]_vars

\* run(MaxTicks) on two or more particles has returned
C23_Witness ==
    /\ phase = "done"
    /\ num_time_steps = MaxTicks
    /\ current_time_step = MaxTicks
    /\ Len(particles_list) >= 2

\* the acceleration of a particle in the tick's tree, the particle put at a position
StageAt(particle, position) ==
    Acceleration(calculate_particle_force(particle, barnes_hut_root[1], position,
                                          sim_theta),
                 particle)

\* C24: each of the four stage accelerations of a particle is the tree's answer at
\* that stage's own intermediate position: stage 1 at the particle's position, stages 2
\* and 3 half a step on (position + velocity * time_step_size / 2), stage 4 a whole
\* step on (position + velocity * time_step_size).
C24_StagesAtOwnStates ==
    (phase = "write" /\ index = 1) =>
        \A j \in 1..Len(new_data) :
            \E particle \in {TickStart[j]} :
                \E half_step \in {VecFl(VecAdd(particle.position,
                                     VecHalf(VecScale(time_step_size, particle.velocity))))},
                   whole_step \in {VecFl(VecAdd(particle.position,
                                      VecScale(time_step_size, particle.velocity)))} :
                    new_data[j].accelerations =
                        <<StageAt(particle, particle.position),
                          StageAt(particle, half_step),
                          StageAt(particle, half_step),
                          StageAt(particle, whole_step)>>

---------------------------------------------------------------------------
(* the output file and eulers *)

\* C27: close_output_file returns False whenever the output file is not open when it
\* is called (never opened, or closed already), returns True only when it closes a
\* file that was open, and never raises.
C27_CloseReportsState ==
    (returned # <<>> /\ returned[1].method = "close_output_file") =>
        /\ returned[1].value = (returned[1].was = "open")
        /\ raised = ""

\* C30: eulers leaves the array given (or defaulted) as initial_values as it was, so
\* calls with the same arguments return the same result every time: both arrays
\* still hold the zeros they were made with, and two calls of the history with the
\* same derivative, the same choice of array, step size and step count have the
\* same result.
C30_EulersKeepsInitialValues ==
    /\ default_initial_values = Zero3
    /\ caller_values = Zero3
    /\ \A i \in 1..Len(eulers_calls), j \in 1..Len(eulers_calls) :
           (/\ eulers_calls[i].derivative = eulers_calls[j].derivative
            /\ eulers_calls[i].passed = eulers_calls[j].passed
            /\ eulers_calls[i].step = eulers_calls[j].step
            /\ eulers_calls[i].steps = eulers_calls[j].steps)
               => eulers_calls[i].result = eulers_calls[j].result

====
